---- MODULE Spec2Model ----
(***************************************************************************)
(* Remote image resolution (pkg/fanal/image/remote.go): tryRemote,         *)
(* parsePlatform and the remoteImage / implicitReference accessors.        *)
(* Strings are TLA+ strings; prefix tests, trimming and splitting are      *)
(* computed character by character as the Go strings package does.         *)
(***************************************************************************)
EXTENDS Integers, Sequences, FiniteSets, TLC

VARIABLES imageName, ref, option, ctx, pc, remoteOpts, indexResp, platform,
          auth, fetchAuth, desc, ret, trace, cancelAt, call

vars == <<imageName, ref, option, ctx, pc, remoteOpts, indexResp, platform,
          auth, fetchAuth, desc, ret, trace, cancelAt, call>>

(***************************************************************************)
(* Bounds                                                                  *)
(***************************************************************************)
\* longest manifest list an index answers with
MaxManifests == 2
\* most "library/" prefixes stacked in front of a repository path
MaxLibraryPrefixes == 2

(***************************************************************************)
(* strings package                                                         *)
(***************************************************************************)
HasPrefix(s, prefix) ==
    Len(s) >= Len(prefix) /\ SubSeq(s, 1, Len(prefix)) = prefix

TrimPrefix(s, prefix) ==
    IF HasPrefix(s, prefix) THEN SubSeq(s, Len(prefix) + 1, Len(s)) ELSE s

\* index of the first occurrence of the one-character separator, 0 if none
RECURSIVE IndexFrom(_, _, _)
IndexFrom(s, sep, i) ==
    IF i > Len(s) THEN 0
    ELSE IF SubSeq(s, i, i) = sep THEN i
    ELSE IndexFrom(s, sep, i + 1)

RECURSIVE Split(_, _)
Split(s, sep) ==
    LET i == IndexFrom(s, sep, 1)
    IN  IF i = 0 THEN <<s>>
        ELSE <<SubSeq(s, 1, i - 1)>> \o Split(SubSeq(s, i + 1, Len(s)), sep)

(***************************************************************************)
(* name package: references                                                *)
(***************************************************************************)
DefaultRegistry == "index.docker.io"

Registries == {DefaultRegistry, "myregistry.io"}

RECURSIVE LibraryPrefixes(_)
LibraryPrefixes(n) == IF n = 0 THEN "" ELSE "library/" \o LibraryPrefixes(n - 1)

Repositories ==
    {LibraryPrefixes(n) \o b : n \in 0..MaxLibraryPrefixes, b \in {"alpine", "team/app"}}

Digests == {"sha256:abcd", "sha256:ef01"}

\* a name.Tag carries a tag, a name.Digest carries a digest
References ==
    [type : {"Tag"}, Registry : Registries, Repository : Repositories,
     Tag : {"3.18"}, Digest : {""}]
    \cup
    [type : {"Digest"}, Registry : Registries, Repository : Repositories,
     Tag : {""}, Digest : {"sha256:abcd"}]

(***************************************************************************)
(* types.DockerOption                                                      *)
(***************************************************************************)
Platforms == {"", "linux/amd64", "*/amd64", "*/arm64", "linux/arm/v7/x"}

DockerOptions ==
    [InsecureSkipTLSVerify : BOOLEAN, Platform : Platforms,
     RegistryToken : {"", "tok"}, Username : {"", "user"}, Password : {"", "pass"}]

(***************************************************************************)
(* v1.Platform and the manifest index                                      *)
(***************************************************************************)
NilPlatform ==
    [nil |-> TRUE, OS |-> "", Architecture |-> "", Variant |-> "", OSVersion |-> ""]

OSPlatform(os) ==
    [nil |-> FALSE, OS |-> os, Architecture |-> "amd64", Variant |-> "", OSVersion |-> ""]

\* a manifest entry of an index; its Platform pointer may be nil
ManifestEntries ==
    {[Platform |-> NilPlatform]} \cup {[Platform |-> OSPlatform(os)] : os \in {"linux", "windows"}}

ManifestLists == UNION {[1..n -> ManifestEntries] : n \in 0..MaxManifests}

\* what remote.Index followed by index.IndexManifest can answer
IndexResponses ==
    [kind : {"ErrSchema1", "ErrOther", "ErrIndexManifest"}, Manifests : {<<>>}]
    \cup [kind : {"Index"}, Manifests : ManifestLists]

NoResponse == [kind |-> "none", Manifests |-> <<>>]

\* v1.ParsePlatform of go-containerregistry
ParsePlatform(s) ==
    LET byColon == Split(s, ":")
        parts == Split(byColon[1], "/")
        p == [nil |-> FALSE,
              OS |-> parts[1],
              Architecture |-> IF Len(parts) > 1 THEN parts[2] ELSE "",
              Variant |-> IF Len(parts) > 2 THEN parts[3] ELSE "",
              OSVersion |-> IF Len(byColon) = 2 THEN byColon[2] ELSE ""]
    IN  IF Len(parts) > 3
        THEN [s |-> NilPlatform, err |-> "platform parse error"]
        ELSE [s |-> p, err |-> ""]

\* substituteOS taking the OS of the last entry instead of the first
substituteOS_lastEntry(p, m) ==
    IF ~m[Len(m)].Platform.nil
    THEN m[Len(m)].Platform.OS \o TrimPrefix(p, "*")
    ELSE p

\* parsePlatform, lines 91-95: replace the wildcard with the detected OS
substituteOS(p, m) ==
    IF ~m[1].Platform.nil
    THEN m[1].Platform.OS \o TrimPrefix(p, "*")
    ELSE p

\* parsePlatform, lines 97-101: parse and wrap the parse error
parseAndWrap(p) ==
    LET r == ParsePlatform(p)
    IN  IF r.err # ""
        THEN [s |-> NilPlatform, err |-> "platform parse error"]
        ELSE [s |-> r.s, err |-> ""]

\* parsePlatform reporting an empty manifest list as an error
parsePlatform_emptyIsError(p, resp) ==
    IF HasPrefix(p, "*/")
    THEN IF resp.kind = "ErrSchema1"
         THEN [s |-> NilPlatform, err |-> ""]
         ELSE IF resp.kind = "ErrCanceled"
         THEN [s |-> NilPlatform, err |-> "remote index error: context canceled"]
         ELSE IF resp.kind = "ErrOther"
         THEN [s |-> NilPlatform, err |-> "remote index error: fetch error"]
         ELSE IF resp.kind = "ErrIndexManifest"
         THEN [s |-> NilPlatform, err |-> "remote index manifest error"]
         ELSE IF Len(resp.Manifests) = 0
         THEN [s |-> NilPlatform, err |-> "remote index manifest error"]
         ELSE parseAndWrap(substituteOS(p, resp.Manifests))
    ELSE parseAndWrap(p)

\* parsePlatform(ref, p); resp is what remote.Index(ref) and
\* index.IndexManifest() answer, consulted only for an OS wildcard
parsePlatform(p, resp) ==
    IF HasPrefix(p, "*/")
    THEN IF resp.kind = "ErrSchema1"
         THEN [s |-> NilPlatform, err |-> ""]
         ELSE IF resp.kind = "ErrCanceled"
         THEN [s |-> NilPlatform, err |-> "remote index error: context canceled"]
         ELSE IF resp.kind = "ErrOther"
         THEN [s |-> NilPlatform, err |-> "remote index error: fetch error"]
         ELSE IF resp.kind = "ErrIndexManifest"
         THEN [s |-> NilPlatform, err |-> "remote index manifest error"]
         ELSE IF Len(resp.Manifests) = 0
         THEN [s |-> NilPlatform, err |-> ""]
         ELSE parseAndWrap(substituteOS(p, resp.Manifests))
    ELSE parseAndWrap(p)

(***************************************************************************)
(* Credentials                                                             *)
(***************************************************************************)
NoAuth == [type |-> "none", Username |-> "", Password |-> "", Token |-> "", domain |-> ""]

\* token.GetToken: the basic credential of the option bundle
GetToken(domain, opt) ==
    [type |-> "Basic", Username |-> opt.Username, Password |-> opt.Password,
     Token |-> "", domain |-> ""]

\* authOption testing the registry token before the basic credential
authOption_tokenFirst(a, opt) ==
    IF opt.RegistryToken # ""
    THEN [opt |-> "WithAuth",
          arg |-> [type |-> "Bearer", Username |-> "", Password |-> "",
                   Token |-> opt.RegistryToken, domain |-> ""]]
    ELSE IF a.Username # "" /\ a.Password # ""
    THEN [opt |-> "WithAuth", arg |-> a]
    ELSE [opt |-> "WithAuthFromKeychain", arg |-> "DefaultKeychain"]

\* tryRemote, lines 41-48: the one authentication option that is appended
authOption(a, opt) ==
    IF a.Username # "" /\ a.Password # ""
    THEN [opt |-> "WithAuth", arg |-> a]
    ELSE IF opt.RegistryToken # ""
    THEN [opt |-> "WithAuth",
          arg |-> [type |-> "Bearer", Username |-> "", Password |-> "",
                   Token |-> opt.RegistryToken, domain |-> ""]]
    ELSE [opt |-> "WithAuthFromKeychain", arg |-> "DefaultKeychain"]

IsAuthOption(o) == o.opt \in {"WithAuth", "WithAuthFromKeychain"}

\* the authenticator a request built from opts for reference r carries:
\* the last authentication option wins, a keychain is resolved for r's registry
RECURSIVE Authenticator(_, _)
Authenticator(opts, r) ==
    IF Len(opts) = 0 THEN NoAuth
    ELSE LET o == opts[Len(opts)]
         IN  IF o.opt = "WithAuth" THEN o.arg
             ELSE IF o.opt = "WithAuthFromKeychain"
             THEN [type |-> "Keychain", Username |-> "", Password |-> "",
                   Token |-> "", domain |-> r.Registry]
             ELSE Authenticator(SubSeq(opts, 1, Len(opts) - 1), r)

\* the context a request built from opts runs under: the caller's only when
\* a context option was passed, the background context otherwise
Background == [cancelled |-> FALSE]

RequestContext(opts, callerCtx) ==
    IF \E i \in 1..Len(opts) : opts[i].opt = "WithContext"
    THEN callerCtx
    ELSE Background

(***************************************************************************)
(* remoteImage and implicitReference                                       *)
(***************************************************************************)
NoDescriptor == [Digest |-> ""]

NilImage == [nil |-> TRUE]

NoReturn == [returned |-> FALSE, img |-> NilImage, err |-> ""]

\* implicitReference.TagName
TagName(r) == IF r.type = "Tag" THEN r.Tag ELSE ""

\* RepositoryName trimming the default namespace on every registry
RepositoryName_trimEverywhere(r) ==
    LET reg == r.Registry
        repo == TrimPrefix(r.Repository, "library/")
    IN  IF reg # DefaultRegistry
        THEN reg \o "/" \o repo
        ELSE repo

\* implicitReference.RepositoryName
RepositoryName(r) ==
    LET reg == r.Registry
        repo == r.Repository
    IN  IF reg # DefaultRegistry
        THEN reg \o "/" \o repo
        ELSE TrimPrefix(repo, "library/")

\* RepoTags without the test for a reference that has no tag
RepoTags_noEmptyTest(img) ==
    <<RepositoryName(img.ref) \o ":" \o TagName(img.ref)>>

\* remoteImage.RepoTags
RepoTags(img) ==
    LET tag == TagName(img.ref)
    IN  IF tag = "" THEN <<>>
        ELSE <<RepositoryName(img.ref) \o ":" \o tag>>

\* RepoDigests taking the digest of the reference, not of the descriptor
RepoDigests_fromReference(img) ==
    <<RepositoryName(img.ref) \o "@" \o img.ref.Digest>>

\* remoteImage.RepoDigests
RepoDigests(img) ==
    <<RepositoryName(img.ref) \o "@" \o img.descriptor.Digest>>

\* remoteImage.Name
Name(img) == img.name

NoCall == [method |-> "", str |-> "", strs |-> <<>>]

(***************************************************************************)
(* tryRemote                                                               *)
(***************************************************************************)
Init ==
    /\ imageName \in {"img"}
    /\ ref \in References
    /\ option \in DockerOptions
    /\ ctx = [cancelled |-> FALSE]
    /\ pc = "start"
    /\ remoteOpts = <<>>
    /\ indexResp = NoResponse
    /\ platform = [called |-> FALSE, s |-> NilPlatform, err |-> ""]
    /\ auth = NoAuth
    /\ fetchAuth = NoAuth
    /\ desc = NoDescriptor
    /\ ret = NoReturn
    /\ trace = <<>>
    /\ cancelAt = ""
    /\ call = NoCall

\* lines 23-28
tlsOpts(opt) ==
    IF opt.InsecureSkipTLSVerify
    THEN <<[opt |-> "WithTransport", arg |-> "InsecureSkipVerify"]>>
    ELSE <<>>

\* AfterParsePlatform going on after an error of parsePlatform
AfterParsePlatform_ignoreError(r, opts) ==
    /\ platform' = [called |-> TRUE, s |-> r.s, err |-> r.err]
    /\ pc' = "token"
    /\ ret' = ret
    /\ remoteOpts' = opts

\* lines 31-35 once parsePlatform has returned r: return the error, or
\* dereference the returned pointer and append the platform option
AfterParsePlatform(r, opts) ==
    /\ platform' = [called |-> TRUE, s |-> r.s, err |-> r.err]
    /\ IF r.err # ""
       THEN /\ pc' = "done"
            /\ ret' = [returned |-> TRUE, img |-> NilImage, err |-> r.err]
            /\ remoteOpts' = opts
       ELSE IF r.s.nil
       THEN \* *s with s == nil: nil pointer dereference, the goroutine panics
            /\ pc' = "panic"
            /\ ret' = ret
            /\ remoteOpts' = opts
       ELSE /\ pc' = "token"
            /\ ret' = ret
            /\ remoteOpts' = Append(opts, [opt |-> "WithPlatform", arg |-> r.s])

\* lines 22-31 and 73-74: up to the first blocking call
Start ==
    /\ pc = "start"
    /\ LET opts == tlsOpts(option)
       IN  IF option.Platform = ""
           THEN /\ pc' = "token"
                /\ remoteOpts' = opts
                /\ UNCHANGED <<platform, ret, trace>>
           ELSE IF HasPrefix(option.Platform, "*/")
           THEN \* remote.Index(ref) is issued, with no option at all
                /\ pc' = "index"
                /\ remoteOpts' = opts
                /\ trace' = Append(trace, "index")
                /\ UNCHANGED <<platform, ret>>
           ELSE /\ AfterParsePlatform(parsePlatform(option.Platform, NoResponse), opts)
                /\ UNCHANGED trace
    /\ UNCHANGED <<imageName, ref, option, ctx, indexResp, auth, fetchAuth, desc,
                   cancelAt, call>>

\* lines 74-101 and 32-36: remote.Index(ref) returns
IndexReturn ==
    /\ pc = "index"
    /\ \E resp \in (IF RequestContext(<<>>, ctx).cancelled
                    THEN {[kind |-> "ErrCanceled", Manifests |-> <<>>]}
                    ELSE IndexResponses) :
          /\ indexResp' = resp
          /\ AfterParsePlatform(parsePlatform(option.Platform, resp), remoteOpts)
    /\ UNCHANGED <<imageName, ref, option, ctx, auth, fetchAuth, desc, trace,
                   cancelAt, call>>

\* lines 38-50: resolve the credential, then issue remote.Get
Credential ==
    /\ pc = "token"
    /\ LET domain == ref.Registry
           a == GetToken(domain, option)
           opts == Append(remoteOpts, authOption(a, option))
       IN  /\ auth' = a
           /\ remoteOpts' = opts
           /\ fetchAuth' = Authenticator(opts, ref)
    /\ trace' = trace \o <<"credential", "get">>
    /\ pc' = "get"
    /\ UNCHANGED <<imageName, ref, option, ctx, indexResp, platform, desc, ret,
                   cancelAt, call>>

\* digests a registry can answer for r: a digest reference is answered with
\* that very digest
DescriptorDigests(r) == IF r.type = "Digest" THEN {r.Digest} ELSE Digests

\* lines 50-53: remote.Get fails
GetError ==
    /\ pc = "get"
    /\ \E e \in (IF RequestContext(remoteOpts, ctx).cancelled
                 THEN {"context canceled"}
                 ELSE {"fetch error"}) :
          ret' = [returned |-> TRUE, img |-> NilImage, err |-> e]
    /\ pc' = "done"
    /\ UNCHANGED <<imageName, ref, option, ctx, remoteOpts, indexResp, platform,
                   auth, fetchAuth, desc, trace, cancelAt, call>>

\* lines 50-66: remote.Get succeeds, then desc.Image() fails or the result
\* is wrapped into a remoteImage
GetReturn ==
    /\ pc = "get"
    /\ ~RequestContext(remoteOpts, ctx).cancelled
    /\ \E d \in DescriptorDigests(ref), imageOk \in BOOLEAN :
          /\ desc' = [Digest |-> d]
          /\ IF imageOk
             THEN /\ ret' = [returned |-> TRUE,
                             img |-> [nil |-> FALSE, name |-> imageName, ref |-> ref,
                                      descriptor |-> [Digest |-> d]],
                             err |-> ""]
                  /\ trace' = Append(trace, "wrap")
             ELSE /\ ret' = [returned |-> TRUE, img |-> NilImage, err |-> "image error"]
                  /\ trace' = trace
    /\ pc' = "done"
    /\ UNCHANGED <<imageName, ref, option, ctx, remoteOpts, indexResp, platform,
                   auth, fetchAuth, cancelAt, call>>

\* the caller cancels the context it passed to tryRemote
Cancel ==
    /\ pc \notin {"done", "panic"}
    /\ ~ctx.cancelled
    /\ ctx' = [cancelled |-> TRUE]
    /\ cancelAt' = pc
    /\ UNCHANGED <<imageName, ref, option, pc, remoteOpts, indexResp, platform,
                   auth, fetchAuth, desc, ret, trace, call>>

\* the caller uses the accessors of the image tryRemote returned
CallAccessor(method) ==
    /\ pc = "done"
    /\ ~ret.img.nil
    /\ call' = CASE method = "RepoTags" ->
                      [method |-> method, str |-> "", strs |-> RepoTags(ret.img)]
                 [] method = "RepoDigests" ->
                      [method |-> method, str |-> "", strs |-> RepoDigests(ret.img)]
                 [] method = "RepositoryName" ->
                      [method |-> method, str |-> RepositoryName(ret.img.ref), strs |-> <<>>]
                 [] method = "TagName" ->
                      [method |-> method, str |-> TagName(ret.img.ref), strs |-> <<>>]
                 [] method = "Name" ->
                      [method |-> method, str |-> Name(ret.img), strs |-> <<>>]
    /\ UNCHANGED <<imageName, ref, option, ctx, pc, remoteOpts, indexResp, platform,
                   auth, fetchAuth, desc, ret, trace, cancelAt>>

CallRepoTags == CallAccessor("RepoTags")
CallRepoDigests == CallAccessor("RepoDigests")
CallRepositoryName == CallAccessor("RepositoryName")
CallTagName == CallAccessor("TagName")
CallName == CallAccessor("Name")

Next ==
    \/ Start
    \/ IndexReturn
    \/ Credential
    \/ GetError
    \/ GetReturn
    \/ Cancel
    \/ CallRepoTags
    \/ CallRepoDigests
    \/ CallRepositoryName
    \/ CallTagName
    \/ CallName

Spec == Init /\ [][Next]_vars

TypeOK ==
    /\ pc \in {"start", "index", "token", "get", "done", "panic"}
    /\ ref \in References
    /\ option \in DockerOptions

(***************************************************************************)
(* Properties                                                              *)
(***************************************************************************)
IsWildcard(p) == HasPrefix(p, "*/")

AuthOptionCount(opts) == Cardinality({i \in 1..Len(opts) : IsAuthOption(opts[i])})

HasPlatformOption(opts) == \E i \in 1..Len(opts) : opts[i].opt = "WithPlatform"

Issued(step) == \E i \in 1..Len(trace) : trace[i] = step

IsCanceled(err) ==
    err \in {"context canceled", "remote index error: context canceled"}

\* C1: when parsePlatform yields no constraint and no error for a non-empty
\* platform string, tryRemote adds no platform option and goes on to the
\* remote fetch; it does not crash at the platform step.
C1_NoConstraintContinues ==
    (platform.called /\ option.Platform # "" /\ platform.s.nil /\ platform.err = "")
        => /\ pc \in {"token", "get", "done"}
           /\ ~HasPlatformOption(remoteOpts)

\* C2: the fetch carries exactly one credential, chosen by strict precedence:
\* basic when Username and Password are both non-empty, else bearer when
\* RegistryToken is non-empty, else the keychain keyed by the registry of the
\* reference; selecting the credential returns no error.
C2_CredentialPrecedence ==
    Issued("get") =>
        /\ AuthOptionCount(remoteOpts) = 1
        /\ fetchAuth =
             IF option.Username # "" /\ option.Password # ""
             THEN [type |-> "Basic", Username |-> option.Username,
                   Password |-> option.Password, Token |-> "", domain |-> ""]
             ELSE IF option.RegistryToken # ""
             THEN [type |-> "Bearer", Username |-> "", Password |-> "",
                   Token |-> option.RegistryToken, domain |-> ""]
             ELSE [type |-> "Keychain", Username |-> "", Password |-> "",
                   Token |-> "", domain |-> ref.Registry]
        /\ (pc = "get" => ~ret.returned)

C2_Witness ==
    /\ pc = "get"
    /\ option.Username = "user" /\ option.Password = "pass"
    /\ option.RegistryToken = "tok"
    /\ fetchAuth.type = "Basic"

\* C3 as stated: for every wildcard input and every non-empty manifest list
\* the constraint has the OS of the first entry's platform and the given
\* architecture, and the wildcard is always replaced.
C3_WildcardAlwaysReplaced ==
    (platform.called /\ IsWildcard(option.Platform) /\ indexResp.kind = "Index"
     /\ Len(indexResp.Manifests) > 0)
        => /\ platform.err = ""
           /\ ~platform.s.nil
           /\ platform.s.OS = indexResp.Manifests[1].Platform.OS
           /\ platform.s.OS # "*"
           /\ platform.s.Architecture = TrimPrefix(option.Platform, "*/")

\* C3 amended: for every wildcard input and every non-empty manifest list
\* whose first entry carries a platform, the constraint has that platform's
\* OS and the given architecture, whatever the later entries are; when the
\* first entry carries no platform the wildcard stays and the constraint
\* has OS "*" and the given architecture.
C3_FirstEntryOS ==
    (platform.called /\ IsWildcard(option.Platform) /\ indexResp.kind = "Index"
     /\ Len(indexResp.Manifests) > 0)
        => /\ platform.err = ""
           /\ ~platform.s.nil
           /\ platform.s.Architecture = TrimPrefix(option.Platform, "*/")
           /\ platform.s.OS =
                IF indexResp.Manifests[1].Platform.nil
                THEN "*"
                ELSE indexResp.Manifests[1].Platform.OS

C3_Witness ==
    /\ platform.called
    /\ option.Platform = "*/arm64"
    /\ indexResp.kind = "Index"
    /\ Len(indexResp.Manifests) = 2
    /\ indexResp.Manifests[1].Platform.OS = "linux"
    /\ indexResp.Manifests[2].Platform.OS = "windows"
    /\ platform.s.OS = "linux"
    /\ platform.s.Architecture = "arm64"

\* C4: for a wildcard input, the legacy-schema error of the index fetch and
\* an empty manifest list both make parsePlatform return no constraint and
\* no error.
C4_NotMultiArch ==
    (platform.called /\ IsWildcard(option.Platform)
     /\ (\/ indexResp.kind = "ErrSchema1"
         \/ (indexResp.kind = "Index" /\ Len(indexResp.Manifests) = 0)))
        => platform.s.nil /\ platform.err = ""

C4_Witness ==
    /\ platform.called
    /\ option.Platform = "*/amd64"
    /\ indexResp.kind = "Index"
    /\ Len(indexResp.Manifests) = 0
    /\ platform.s.nil
    /\ platform.err = ""

\* C5: for a wildcard input, an index-fetch failure other than the legacy
\* schema makes parsePlatform return an error and no constraint; tryRemote
\* returns that error, issues no remote image fetch and returns no image.
C5_IndexErrorAborts ==
    (platform.called /\ IsWildcard(option.Platform)
     /\ indexResp.kind \in {"ErrOther", "ErrIndexManifest"})
        => /\ platform.err # ""
           /\ platform.s.nil
           /\ pc = "done"
           /\ ret.returned
           /\ ret.err = platform.err
           /\ ret.img.nil
           /\ ~Issued("get")
           /\ desc = NoDescriptor

C5_Witness ==
    /\ pc = "done"
    /\ option.Platform = "*/amd64"
    /\ indexResp.kind = "ErrOther"
    /\ ret.returned
    /\ ret.err = "remote index error: fetch error"

\* C6: when the caller cancels the context while the index fetch or the
\* image fetch is in flight, tryRemote returns a cancellation error.
C6_CancelAborts ==
    (cancelAt \in {"index", "get"} /\ pc \in {"done", "panic"})
        => ret.returned /\ IsCanceled(ret.err)

\* C7: RepositoryName is the repository path less one leading "library/"
\* on the default registry, and "<registry>/<repository path>" with nothing
\* stripped on any other registry.
C7_RepositoryName ==
    call.method = "RepositoryName" =>
        IF ref.Registry = DefaultRegistry
        THEN IF HasPrefix(ref.Repository, "library/")
             THEN "library/" \o call.str = ref.Repository
             ELSE call.str = ref.Repository
        ELSE call.str = ref.Registry \o "/" \o ref.Repository

C7_Witness ==
    /\ call.method = "RepositoryName"
    /\ ref.Registry = DefaultRegistry
    /\ ref.Repository = "library/library/alpine"
    /\ call.str = "library/alpine"

\* C8: RepoDigests of the image a successful tryRemote returned is the one
\* element "<repositoryName>@<digest>", the digest being that of the
\* descriptor the fetch returned, also for a reference given by tag.
C8_RepoDigests ==
    call.method = "RepoDigests" =>
        /\ Len(call.strs) = 1
        /\ call.strs[1] = RepositoryName(ref) \o "@" \o desc.Digest
        /\ desc.Digest \in DescriptorDigests(ref)

C8_Witness ==
    /\ call.method = "RepoDigests"
    /\ ref.type = "Tag"
    /\ ref.Registry = "myregistry.io"
    /\ ref.Repository = "team/app"
    /\ desc.Digest = "sha256:ef01"
    /\ call.strs = <<"myregistry.io/team/app@sha256:ef01">>

\* C9: RepoTags is empty for a reference without a tag and the one element
\* "<repositoryName>:<tag>" for a reference with a tag.
C9_RepoTags ==
    call.method = "RepoTags" =>
        IF ref.type = "Digest"
        THEN call.strs = <<>>
        ELSE call.strs = <<RepositoryName(ref) \o ":" \o ref.Tag>>

C9_Witness ==
    /\ call.method = "RepoTags"
    /\ ref.type = "Tag"
    /\ ref.Registry = DefaultRegistry
    /\ ref.Repository = "library/alpine"
    /\ call.strs = <<"alpine:3.18">>

\* C10: the steps of one resolution happen in the order credential lookup,
\* index fetch, image fetch, wrap; no index fetch is issued before the
\* credential is resolved.
StepRank(step) ==
    CASE step = "credential" -> 1
      [] step = "index" -> 2
      [] step = "get" -> 3
      [] step = "wrap" -> 4

C10_PipelineOrder ==
    /\ \A i, j \in 1..Len(trace) : i < j => StepRank(trace[i]) < StepRank(trace[j])
    /\ (Issued("index") => auth # NoAuth)
====
